---- MODULE Spec2Model ----
(***************************************************************************)
(* A model of go-vies: the Validator (NewValidator, Check, Valid, Status,  *)
(* doJSON, doError) and the Availability JSON codec.                       *)
(*                                                                         *)
(* Go strings are sequences of bytes (0..255).  A JSON document is         *)
(* modelled by the value it denotes (or by the fact that it is not valid   *)
(* JSON); encoding/json's coercions are modelled on those values.          *)
(***************************************************************************)
EXTENDS Integers, Sequences, FiniteSets, TLC

VARIABLES validator, ctor, calls, net, codec

vars == <<validator, ctor, calls, net, codec>>

(***************************************************************************)
(* Bounds of the model.                                                    *)
(***************************************************************************)
\* longest VAT input, in bytes, of the sequential specification
MaxVatLen == 3
\* number of simultaneous calls of the concurrent specification
NCalls == 2
\* largest number of upper-cased letters in a mixed-case Availability text
MaxUpper == 1

(***************************************************************************)
(* Bytes, runes and UTF-8 (Go's unicode/utf8, as used by strings.ToUpper,  *)
(* strings.ToLower and encoding/json).                                     *)
(***************************************************************************)
\* F applied to x: a value computed once and used by name
With(x, F(_)) == F(x)

IsCont(b) == b >= 128 /\ b <= 191

\* U+FFFD, the replacement character, in UTF-8
RuneErrorBytes == <<239, 191, 189>>

\* utf8.DecodeRune at position i of s: [r, size, ok]; an invalid byte decodes
\* as RuneError with size 1
DecodeRune(s, i) ==
  LET n  == Len(s) - i + 1
      b0 == s[i]
      bad == [r |-> 65533, size |-> 1, ok |-> FALSE]
  IN  IF b0 < 128 THEN [r |-> b0, size |-> 1, ok |-> TRUE]
      ELSE IF b0 >= 194 /\ b0 <= 223
        THEN IF n >= 2 /\ IsCont(s[i+1])
             THEN [r |-> (b0 - 192) * 64 + (s[i+1] - 128), size |-> 2, ok |-> TRUE]
             ELSE bad
      ELSE IF b0 >= 224 /\ b0 <= 239
        THEN IF /\ n >= 3
                /\ IsCont(s[i+1]) /\ IsCont(s[i+2])
                /\ (b0 = 224 => s[i+1] >= 160)
                /\ (b0 = 237 => s[i+1] <= 159)
             THEN [r |-> (b0 - 224) * 4096 + (s[i+1] - 128) * 64 + (s[i+2] - 128),
                   size |-> 3, ok |-> TRUE]
             ELSE bad
      ELSE IF b0 >= 240 /\ b0 <= 244
        THEN IF /\ n >= 4
                /\ IsCont(s[i+1]) /\ IsCont(s[i+2]) /\ IsCont(s[i+3])
                /\ (b0 = 240 => s[i+1] >= 144)
                /\ (b0 = 244 => s[i+1] <= 143)
             THEN [r |-> (b0 - 240) * 262144 + (s[i+1] - 128) * 4096
                           + (s[i+2] - 128) * 64 + (s[i+3] - 128),
                   size |-> 4, ok |-> TRUE]
             ELSE bad
      ELSE bad

\* utf8.AppendRune
EncodeRune(r) ==
  IF r < 128 THEN <<r>>
  ELSE IF r < 2048 THEN <<192 + (r \div 64), 128 + (r % 64)>>
  ELSE IF r < 65536
    THEN <<224 + (r \div 4096), 128 + ((r \div 64) % 64), 128 + (r % 64)>>
  ELSE <<240 + (r \div 262144), 128 + ((r \div 4096) % 64),
         128 + ((r \div 64) % 64), 128 + (r % 64)>>

\* unicode.ToUpper on the runes the model draws (ASCII and Latin-1)
RuneToUpper(r) ==
  IF r >= 97 /\ r <= 122 THEN r - 32
  ELSE IF r >= 224 /\ r <= 254 /\ r # 247 THEN r - 32
  ELSE IF r = 255 THEN 376
  ELSE IF r = 181 THEN 924
  ELSE r

\* unicode.ToLower on the runes the model draws (ASCII and Latin-1)
RuneToLower(r) ==
  IF r >= 65 /\ r <= 90 THEN r + 32
  ELSE IF r >= 192 /\ r <= 222 /\ r # 215 THEN r + 32
  ELSE r

RECURSIVE MapRunesUpper(_, _)
\* strings.Map(unicode.ToUpper, s) from position i: every rune is mapped and
\* re-encoded, so an invalid byte comes out as U+FFFD
MapRunesUpper(s, i) ==
  IF i > Len(s) THEN <<>>
  ELSE With(DecodeRune(s, i),
            LAMBDA d : EncodeRune(RuneToUpper(d.r)) \o MapRunesUpper(s, i + d.size))

RECURSIVE MapRunesLower(_, _)
MapRunesLower(s, i) ==
  IF i > Len(s) THEN <<>>
  ELSE With(DecodeRune(s, i),
            LAMBDA d : EncodeRune(RuneToLower(d.r)) \o MapRunesLower(s, i + d.size))

IsASCII(s) == \A i \in 1..Len(s) : s[i] < 128

\* strings.ToUpper: the ASCII fast path, else strings.Map
ToUpper(s) ==
  IF IsASCII(s)
  THEN [i \in 1..Len(s) |-> IF s[i] >= 97 /\ s[i] <= 122 THEN s[i] - 32 ELSE s[i]]
  ELSE MapRunesUpper(s, 1)

\* strings.ToLower: the ASCII fast path, else strings.Map
ToLower(s) ==
  IF IsASCII(s)
  THEN [i \in 1..Len(s) |-> IF s[i] >= 65 /\ s[i] <= 90 THEN s[i] + 32 ELSE s[i]]
  ELSE MapRunesLower(s, 1)

RECURSIVE CoerceUTF8(_, _)
\* The string a JSON text produced by json.Marshal denotes: encoding/json
\* writes every invalid byte of a Go string as the escape of U+FFFD
CoerceUTF8(s, i) ==
  IF i > Len(s) THEN <<>>
  ELSE With(DecodeRune(s, i),
            LAMBDA d : (IF d.ok THEN SubSeq(s, i, i + d.size - 1) ELSE RuneErrorBytes)
                         \o CoerceUTF8(s, i + d.size))

(***************************************************************************)
(* JSON documents, by value.  t is the kind; b, s, a, o hold a boolean, a  *)
(* string, an array's elements and an object's <<key, value>> members.     *)
(* "invalid" stands for a body that is not JSON at all (such as `!`) and   *)
(* "absent" for a member an object does not have.                          *)
(***************************************************************************)
JV(t, b, s, a, o) == [t |-> t, b |-> b, s |-> s, a |-> a, o |-> o]
JInvalid == JV("invalid", FALSE, <<>>, <<>>, <<>>)
JAbsent  == JV("absent", FALSE, <<>>, <<>>, <<>>)
JNull    == JV("null", FALSE, <<>>, <<>>, <<>>)
JNum     == JV("number", FALSE, <<>>, <<>>, <<>>)
JBool(b) == JV("bool", b, <<>>, <<>>, <<>>)
JStr(s)  == JV("string", FALSE, s, <<>>, <<>>)
JArr(a)  == JV("array", FALSE, <<>>, a, <<>>)
JObj(o)  == JV("object", FALSE, <<>>, <<>>, o)

\* the value of member key of an object (the last one, when repeated)
Member(j, key) ==
  LET hits == {i \in 1..Len(j.o) : j.o[i][1] = key}
  IN  IF hits = {} THEN JAbsent
      ELSE j.o[CHOOSE i \in hits : \A k \in hits : k <= i][2]

(***************************************************************************)
(* Errors.  type is the Go dynamic type, msg the format of the text and    *)
(* Err, Message its arguments.                                             *)
(***************************************************************************)
GoError(type, msg, e, m) == [type |-> type, msg |-> msg, Err |-> e, Message |-> m]
NoError == GoError("nil", "", <<>>, <<>>)

\* json.Unmarshal's errors: a body that is not JSON, a value of the wrong kind
SyntaxError == GoError("*json.SyntaxError", "invalid character", <<>>, <<>>)
TypeError   == GoError("*json.UnmarshalTypeError", "json: cannot unmarshal", <<>>, <<>>)
\* client.Do's and io.ReadAll's errors
TransportError == GoError("*url.Error", "transport", <<>>, <<>>)
ReadError      == GoError("*errors.errorString", "unexpected EOF", <<>>, <<>>)

\* ValidationError.Error(): "%v: %v" of Err and Message; fmt.Errorf's text
\* with its argument for the others
ErrorText(e) ==
  IF e.type = "*ValidationError" THEN e.Err \o <<58, 32>> \o e.Message
  ELSE e.Err

(***************************************************************************)
(* The domain model (part_000).                                            *)
(***************************************************************************)
\* "available", "unavailable", "monitoring disabled"
AvailabilityAvailable == <<97, 118, 97, 105, 108, 97, 98, 108, 101>>
AvailabilityUnavailable == <<117, 110, 97, 118, 97, 105, 108, 97, 98, 108, 101>>
AvailabilityMonitoringDisabled ==
  <<109, 111, 110, 105, 116, 111, 114, 105, 110, 103, 32,
    100, 105, 115, 97, 98, 108, 101, 100>>

Canonical ==
  {AvailabilityAvailable, AvailabilityUnavailable, AvailabilityMonitoringDisabled}

\* json.Unmarshal(data, &value) for a Go string: null leaves it alone, any
\* other kind but a string is a type error
UnmarshalString(j, cur) ==
  IF j.t = "invalid" THEN [err |-> SyntaxError, v |-> cur]
  ELSE IF j.t \in {"null", "absent"} THEN [err |-> NoError, v |-> cur]
  ELSE IF j.t = "string" THEN [err |-> NoError, v |-> j.s]
  ELSE [err |-> TypeError, v |-> cur]

UnmarshalBool(j, cur) ==
  IF j.t = "invalid" THEN [err |-> SyntaxError, v |-> cur]
  ELSE IF j.t \in {"null", "absent"} THEN [err |-> NoError, v |-> cur]
  ELSE IF j.t = "bool" THEN [err |-> NoError, v |-> j.b]
  ELSE [err |-> TypeError, v |-> cur]

\* UnmarshalJSON without the strings.ToLower
AvailabilityUnmarshalCaseSensitive(data, cur) ==
  With(UnmarshalString(data, <<>>), LAMBDA d :
    IF d.err # NoError THEN [err |-> d.err, a |-> cur]
    ELSE IF d.v \in Canonical THEN [err |-> NoError, a |-> d.v]
    ELSE [err |-> GoError("*errors.errorString", "invalid availability: %q", d.v, <<>>),
          a |-> cur])

\* (a *Availability) UnmarshalJSON(data): cur is *a before the call
AvailabilityUnmarshalJSON(data, cur) ==
  With(UnmarshalString(data, <<>>), LAMBDA d :
    IF d.err # NoError THEN [err |-> d.err, a |-> cur]
    ELSE With(ToLower(d.v), LAMBDA value :
      IF value \in Canonical THEN [err |-> NoError, a |-> value]
      ELSE [err |-> GoError("*errors.errorString", "invalid availability: %q",
                            value, <<>>),
            a |-> cur]))

\* MarshalJSON matching as UnmarshalJSON does, in any case
AvailabilityMarshalAnyCase(a) ==
  IF ToLower(a) \in Canonical THEN [err |-> NoError, data |-> JStr(CoerceUTF8(a, 1))]
  ELSE [err |-> GoError("*errors.errorString", "invalid availability: %q", a, <<>>),
        data |-> JInvalid]

\* (a Availability) MarshalJSON()
AvailabilityMarshalJSON(a) ==
  IF a \in Canonical THEN [err |-> NoError, data |-> JStr(CoerceUTF8(a, 1))]
  ELSE [err |-> GoError("*errors.errorString", "invalid availability: %q", a, <<>>),
        data |-> JInvalid]

ZeroCheckResult ==
  [CountryCode |-> <<>>, VatNumber |-> <<>>, Vat |-> <<>>, Valid |-> FALSE, Name |-> <<>>]
ZeroStatus == [Vow |-> [Available |-> FALSE], Countries |-> <<>>]
ZeroErrorResponse == [ActionSucceed |-> FALSE, ErrorWrappers |-> <<>>]

\* the first error of a sequence of errors, NoError when there is none
FirstError(errs) ==
  LET bad == {i \in 1..Len(errs) : errs[i] # NoError}
  IN  IF bad = {} THEN NoError ELSE errs[CHOOSE i \in bad : \A k \in bad : i <= k]

\* json.Unmarshal(body, &status) for status of type CheckResult
UnmarshalCheckResult(body) ==
  IF body.t = "invalid" THEN [err |-> SyntaxError, v |-> ZeroCheckResult]
  ELSE IF body.t = "null" THEN [err |-> NoError, v |-> ZeroCheckResult]
  ELSE IF body.t # "object" THEN [err |-> TypeError, v |-> ZeroCheckResult]
  ELSE LET cc == UnmarshalString(Member(body, "countryCode"), <<>>)
           vn == UnmarshalString(Member(body, "vatNumber"), <<>>)
           vt == UnmarshalString(Member(body, "vat"), <<>>)
           vd == UnmarshalBool(Member(body, "valid"), FALSE)
           nm == UnmarshalString(Member(body, "name"), <<>>)
       IN  [err |-> FirstError(<<cc.err, vn.err, vt.err, vd.err, nm.err>>),
            v   |-> [CountryCode |-> cc.v, VatNumber |-> vn.v, Vat |-> vt.v,
                     Valid |-> vd.v, Name |-> nm.v]]

\* one element of "countries": a CountryStatus
UnmarshalCountryStatus(j) ==
  IF j.t = "null" THEN [err |-> NoError, v |-> [CountryCode |-> <<>>, Availability |-> <<>>]]
  ELSE IF j.t # "object"
    THEN [err |-> TypeError, v |-> [CountryCode |-> <<>>, Availability |-> <<>>]]
  ELSE With(UnmarshalString(Member(j, "countryCode"), <<>>), LAMBDA cc :
       With(IF Member(j, "availability").t = "absent"
            THEN [err |-> NoError, a |-> <<>>]
            ELSE AvailabilityUnmarshalJSON(Member(j, "availability"), <<>>), LAMBDA av :
         [err |-> FirstError(<<cc.err, av.err>>),
          v   |-> [CountryCode |-> cc.v, Availability |-> av.a]]))

\* json.Unmarshal(body, &status) for status of type Status
UnmarshalStatus(body) ==
  IF body.t = "invalid" THEN [err |-> SyntaxError, v |-> ZeroStatus]
  ELSE IF body.t = "null" THEN [err |-> NoError, v |-> ZeroStatus]
  ELSE IF body.t # "object" THEN [err |-> TypeError, v |-> ZeroStatus]
  ELSE With(Member(body, "vow"), LAMBDA vow :
       With(IF vow.t \in {"absent", "null"} THEN [err |-> NoError, v |-> FALSE]
            ELSE IF vow.t # "object" THEN [err |-> TypeError, v |-> FALSE]
            ELSE UnmarshalBool(Member(vow, "available"), FALSE), LAMBDA av :
       With(Member(body, "countries"), LAMBDA cs :
       With(IF cs.t = "array"
            THEN [i \in 1..Len(cs.a) |-> UnmarshalCountryStatus(cs.a[i])]
            ELSE <<>>, LAMBDA el :
       With(IF cs.t \in {"absent", "null", "array"} THEN NoError ELSE TypeError,
            LAMBDA ce :
         [err |-> FirstError(<<av.err, ce>> \o [i \in 1..Len(el) |-> el[i].err]),
          v   |-> [Vow |-> [Available |-> av.v],
                   Countries |-> [i \in 1..Len(el) |-> el[i].v]]])))))

\* one element of "errorWrappers": a statusErrorWrapper
UnmarshalErrorWrapper(j) ==
  IF j.t = "null" THEN [err |-> NoError, v |-> [Error |-> <<>>, Message |-> <<>>]]
  ELSE IF j.t # "object" THEN [err |-> TypeError, v |-> [Error |-> <<>>, Message |-> <<>>]]
  ELSE LET e == UnmarshalString(Member(j, "error"), <<>>)
           m == UnmarshalString(Member(j, "message"), <<>>)
       IN  [err |-> FirstError(<<e.err, m.err>>), v |-> [Error |-> e.v, Message |-> m.v]]

\* json.Unmarshal(*body, &e) for e of type statusErrorResponse
UnmarshalErrorResponse(body) ==
  IF body.t = "invalid" THEN [err |-> SyntaxError, v |-> ZeroErrorResponse]
  ELSE IF body.t = "null" THEN [err |-> NoError, v |-> ZeroErrorResponse]
  ELSE IF body.t # "object" THEN [err |-> TypeError, v |-> ZeroErrorResponse]
  ELSE With(UnmarshalBool(Member(body, "actionSucceed"), FALSE), LAMBDA as :
       With(Member(body, "errorWrappers"), LAMBDA ew :
       With(IF ew.t = "array"
            THEN [i \in 1..Len(ew.a) |-> UnmarshalErrorWrapper(ew.a[i])]
            ELSE <<>>, LAMBDA el :
       With(IF ew.t \in {"absent", "null", "array"} THEN NoError ELSE TypeError,
            LAMBDA ee :
         [err |-> FirstError(<<as.err, ee>> \o [i \in 1..Len(el) |-> el[i].err]),
          v   |-> [ActionSucceed |-> as.v,
                   ErrorWrappers |-> [i \in 1..Len(el) |-> el[i].v]]]))))

(***************************************************************************)
(* The Validator (vies.go).                                                *)
(***************************************************************************)
ViesEndpointUrl == "https://ec.europa.eu/taxation_customs/vies/rest-api/"
ViesCheckStatusPath == "check-status"
ViesCheckVatPath == "check-vat-number"

NoURL == [scheme |-> "", host |-> "", path |-> <<>>]

\* url.Parse on the endpoints the model draws: absolute URLs, a relative
\* reference and the empty string (url.Parse accepts both) and a malformed
\* one (an unclosed "[")
urlParse(endpoint) ==
  IF endpoint = ViesEndpointUrl
  THEN [err |-> NoError,
        u |-> [scheme |-> "https", host |-> "ec.europa.eu",
               path |-> <<"taxation_customs", "vies", "rest-api">>]]
  ELSE IF endpoint = "https://example.com/api/"
  THEN [err |-> NoError,
        u |-> [scheme |-> "https", host |-> "example.com", path |-> <<"api">>]]
  ELSE IF endpoint = "example.com/api/"
  THEN [err |-> NoError,
        u |-> [scheme |-> "", host |-> "", path |-> <<"example.com", "api">>]]
  ELSE IF endpoint = "" THEN [err |-> NoError, u |-> NoURL]
  ELSE [err |-> GoError("*url.Error", "parse", <<>>, <<>>), u |-> NoURL]

\* (*url.URL).JoinPath: a new URL, the receiver is left alone
JoinPath(u, elem) == [u EXCEPT !.path = @ \o <<elem>>]

NilValidator == [nil |-> TRUE, client |-> "nil", endpoint |-> NoURL]

\* NewValidator without the default for an empty endpoint
NewValidatorNoDefault(client, endpoint) ==
  LET p == urlParse(endpoint)
  IN  IF p.err # NoError THEN [v |-> NilValidator, err |-> p.err]
      ELSE [v   |-> [nil |-> FALSE,
                     client |-> IF client = "nil" THEN "http.DefaultClient" ELSE client,
                     endpoint |-> p.u],
            err |-> NoError]

\* NewValidator's return values
NewValidatorResult(client, endpoint) ==
  LET ep == IF endpoint = "" THEN ViesEndpointUrl ELSE endpoint
      p  == urlParse(ep)
  IN  IF p.err # NoError THEN [v |-> NilValidator, err |-> p.err]
      ELSE [v   |-> [nil |-> FALSE,
                     client |-> IF client = "nil" THEN "http.DefaultClient" ELSE client,
                     endpoint |-> p.u],
            err |-> NoError]

\* doError reporting the last entry
doErrorLastEntry(body) ==
  With(UnmarshalErrorResponse(body), LAMBDA e :
    IF e.err # NoError THEN e.err
    ELSE IF Len(e.v.ErrorWrappers) > 0
      THEN GoError("*ValidationError", "%v: %v",
                   e.v.ErrorWrappers[Len(e.v.ErrorWrappers)].Error,
                   e.v.ErrorWrappers[Len(e.v.ErrorWrappers)].Message)
    ELSE GoError("*errors.errorString", "invalid response structure", <<>>, <<>>))

\* doError turning a body it cannot decode into a ValidationError
doErrorHidesDecode(body) ==
  With(UnmarshalErrorResponse(body), LAMBDA e :
    IF e.err # NoError THEN GoError("*ValidationError", "%v: %v", <<>>, <<>>)
    ELSE IF Len(e.v.ErrorWrappers) > 0
      THEN GoError("*ValidationError", "%v: %v",
                   e.v.ErrorWrappers[1].Error, e.v.ErrorWrappers[1].Message)
    ELSE GoError("*errors.errorString", "invalid response structure", <<>>, <<>>))

\* doError taking an envelope without entries for a decode failure
doErrorEmptyIsDecode(body) ==
  With(UnmarshalErrorResponse(body), LAMBDA e :
    IF e.err # NoError THEN e.err
    ELSE IF Len(e.v.ErrorWrappers) > 0
      THEN GoError("*ValidationError", "%v: %v",
                   e.v.ErrorWrappers[1].Error, e.v.ErrorWrappers[1].Message)
    ELSE SyntaxError)

\* doError
doError(body) ==
  With(UnmarshalErrorResponse(body), LAMBDA e :
    IF e.err # NoError THEN e.err
    ELSE IF Len(e.v.ErrorWrappers) > 0
      THEN GoError("*ValidationError", "%v: %v",
                   e.v.ErrorWrappers[1].Error, e.v.ErrorWrappers[1].Message)
    ELSE GoError("*errors.errorString", "invalid response structure", <<>>, <<>>))

NoRequest == [method |-> "", url |-> NoURL, contentType |-> "", body |-> JAbsent]

\* json.Marshal(reqBody) for a *checkRequest
MarshalCheckRequest(r) ==
  JObj(<< <<"countryCode", JStr(CoerceUTF8(r.CountryCode, 1))>>,
          <<"vatNumber", JStr(CoerceUTF8(r.VatNumber, 1))>> >>)

\* doJSON up to client.Do: the request it hands to the client; body is
\* JAbsent for a nil reqBody
doJSONRequest(v, method, path, body) ==
  [method |-> method,
   url |-> JoinPath(v.endpoint, path),
   contentType |-> IF body.t # "absent" THEN "application/json" ELSE "",
   body |-> body]

\* what the client and the reading of the body give back
NoOutcome == [kind |-> "none", status |-> 0, body |-> JAbsent]

\* doJSON from client.Do on, for out of type shape: the error, and *out
doJSONResponse(shape, o) ==
  IF o.kind = "error"
    THEN [err |-> TransportError, check |-> ZeroCheckResult, status |-> ZeroStatus]
  ELSE IF o.kind = "readerror"
    THEN [err |-> ReadError, check |-> ZeroCheckResult, status |-> ZeroStatus]
  ELSE IF o.status = 200
    THEN IF shape = "CheckResult"
         THEN With(UnmarshalCheckResult(o.body), LAMBDA d :
                [err |-> d.err, check |-> d.v, status |-> ZeroStatus])
         ELSE With(UnmarshalStatus(o.body), LAMBDA d :
                [err |-> d.err, check |-> ZeroCheckResult, status |-> d.v])
  ELSE [err |-> doError(o.body), check |-> ZeroCheckResult, status |-> ZeroStatus]

\* what a call returns: a nil or non-nil result pointer, Valid's boolean, the error
Ret(resNil, check, status, ok, err) ==
  [resNil |-> resNil, check |-> check, status |-> status, ok |-> ok, err |-> err]
NoRet == Ret(TRUE, ZeroCheckResult, ZeroStatus, FALSE, NoError)

\* Check's precondition failing
CheckTooShort(vat) == Len(vat) < 2

\* Check's reqBody
CheckRequestBody(vat) ==
  [CountryCode |-> ToUpper(SubSeq(vat, 1, 2)), VatNumber |-> SubSeq(vat, 3, Len(vat))]

\* Check when the precondition fails
CheckFormatError(vat) ==
  Ret(TRUE, ZeroCheckResult, ZeroStatus, FALSE,
      GoError("*errors.errorString", "invalid VAT provided %s", vat, <<>>))

\* Check returning &status together with doJSON's error
CheckReturnPartial(o) ==
  With(doJSONResponse("CheckResult", o), LAMBDA d :
    Ret(FALSE, [d.check EXCEPT !.Vat = d.check.CountryCode \o d.check.VatNumber],
        ZeroStatus, FALSE, d.err))

\* Check after doJSON
CheckReturn(o) ==
  With(doJSONResponse("CheckResult", o), LAMBDA d :
    IF d.err # NoError THEN Ret(TRUE, ZeroCheckResult, ZeroStatus, FALSE, d.err)
    ELSE Ret(FALSE, [d.check EXCEPT !.Vat = d.check.CountryCode \o d.check.VatNumber],
             ZeroStatus, FALSE, NoError))

\* Valid, from what Check returned
ValidReturn(r) ==
  IF r.err # NoError THEN Ret(TRUE, ZeroCheckResult, ZeroStatus, FALSE, r.err)
  ELSE Ret(TRUE, ZeroCheckResult, ZeroStatus, r.check.Valid, NoError)

\* Status after doJSON
StatusReturn(o) ==
  With(doJSONResponse("Status", o), LAMBDA d :
    IF d.err # NoError THEN Ret(TRUE, ZeroCheckResult, ZeroStatus, FALSE, d.err)
    ELSE Ret(FALSE, ZeroCheckResult, d.status, FALSE, NoError))

(***************************************************************************)
(* Inputs.                                                                 *)
(***************************************************************************)
\* the bytes of a VAT input: e, E, 1, and 0xC3 0xA9 (the two bytes of U+00E9)
VatBytes == {101, 69, 49, 195, 169}
VatsUpTo(n) == UNION {[1..k -> VatBytes] : k \in 0..n}
Vats == VatsUpTo(MaxVatLen)
\* "E", "ee1", "EE1"
ConcVats == {<<69>>, <<101, 101, 49>>, <<69, 69, 49>>}

Clients == {"nil", "custom"}
Endpoints == {"", "https://example.com/api/", "example.com/api/", "http://[::1"}

\* {"error": e, "message": m}
Wrapper(e, m) == JObj(<< <<"error", JStr(e)>>, <<"message", JStr(m)>> >>)
\* {"countryCode": cc, "availability": av}
Country(cc, av) == JObj(<< <<"countryCode", JStr(cc)>>, <<"availability", JStr(av)>> >>)

\* the response bodies the transport may deliver
Bodies ==
  << \* 1: `!`
     JInvalid,
     \* 2: {}
     JObj(<<>>),
     \* 3: null
     JNull,
     \* 4: 123
     JNum,
     \* 5: {"errorWrappers":[]}
     JObj(<< <<"errorWrappers", JArr(<<>>)>> >>),
     \* 6: {"errorWrappers":[{"error":"err","message":"msg"}]}
     JObj(<< <<"errorWrappers",
               JArr(<< Wrapper(<<101, 114, 114>>, <<109, 115, 103>>) >>)>> >>),
     \* 7: {"actionSucceed":false,"errorWrappers":[{e1,m1},{e2,m2}]}
     JObj(<< <<"actionSucceed", JBool(FALSE)>>,
             <<"errorWrappers",
               JArr(<< Wrapper(<<101, 49>>, <<109, 49>>),
                       Wrapper(<<101, 50>>, <<109, 50>>) >>)>> >>),
     \* 8: {"errorWrappers":"oops"}
     JObj(<< <<"errorWrappers", JStr(<<111, 111, 112, 115>>)>> >>),
     \* 9: {"countryCode":"EE","vatNumber":"123","valid":true,"name":"Acme"}
     JObj(<< <<"countryCode", JStr(<<69, 69>>)>>,
             <<"vatNumber", JStr(<<49, 50, 51>>)>>,
             <<"valid", JBool(TRUE)>>,
             <<"name", JStr(<<65, 99, 109, 101>>)>> >>),
     \* 10: {"countryCode":"E1","vatNumber":"e","vat":"ee","valid":false}
     JObj(<< <<"countryCode", JStr(<<69, 49>>)>>,
             <<"vatNumber", JStr(<<101>>)>>,
             <<"vat", JStr(<<101, 101>>)>>,
             <<"valid", JBool(FALSE)>> >>),
     \* 11: {"countryCode":"EE","valid":"yes"}
     JObj(<< <<"countryCode", JStr(<<69, 69>>)>>,
             <<"valid", JStr(<<121, 101, 115>>)>> >>),
     \* 12: {"vow":{"available":true},
     \*      "countries":[{"countryCode":"EE","availability":"Available"}]}
     JObj(<< <<"vow", JObj(<< <<"available", JBool(TRUE)>> >>)>>,
             <<"countries",
               JArr(<< Country(<<69, 69>>,
                               <<65, 118, 97, 105, 108, 97, 98, 108, 101>>) >>)>> >>),
     \* 13: {"countries":[{"countryCode":"EE","availability":"bogus"}]}
     JObj(<< <<"countries",
               JArr(<< Country(<<69, 69>>, <<98, 111, 103, 117, 115>>) >>)>> >>)
  >>

\* http.StatusOK, http.StatusCreated, http.StatusBadRequest
Statuses == {200, 201, 400}

Response(status, body) == [kind |-> "response", status |-> status, body |-> body]

Outcomes ==
  {[NoOutcome EXCEPT !.kind = "error"], [NoOutcome EXCEPT !.kind = "readerror"]}
    \cup {Response(s, Bodies[i]) : s \in Statuses, i \in 1..Len(Bodies)}

ConcOutcomes ==
  {[NoOutcome EXCEPT !.kind = "error"],
   Response(200, Bodies[1]), Response(200, Bodies[9]), Response(400, Bodies[6])}

(***************************************************************************)
(* State.                                                                  *)
(*   validator  the *Validator NewValidator returned (nil before, and on   *)
(*              failure)                                                   *)
(*   ctor       NewValidator's arguments and error                         *)
(*   calls      the calls in progress on the validator, each with its      *)
(*              position, arguments, request, response and return values   *)
(*   net        per call, how many times the client was invoked            *)
(*   codec      an Availability value being decoded or encoded             *)
(***************************************************************************)
CallIds == 1..NCalls

IdleCall ==
  [pc |-> "idle", op |-> "none", vat |-> <<>>, req |-> NoRequest,
   rsp |-> NoOutcome, ret |-> NoRet]

NoCtor == [done |-> FALSE, client |-> "nil", endpoint |-> "", err |-> NoError]

IdleCodec ==
  [pc |-> "idle", data |-> JAbsent, a |-> <<>>, src |-> <<>>, err |-> NoError]

Init ==
  /\ validator = NilValidator
  /\ ctor = NoCtor
  /\ calls = [c \in CallIds |-> IdleCall]
  /\ net = [c \in CallIds |-> 0]
  /\ codec = IdleCodec

(***************************************************************************)
(* Operations.                                                             *)
(***************************************************************************)
\* NewValidator(client, endpoint)
NewValidator(client, endpoint) ==
  /\ ~ctor.done
  /\ LET r == NewValidatorResult(client, endpoint)
     IN  /\ validator' = r.v
         /\ ctor' = [done |-> TRUE, client |-> client, endpoint |-> endpoint,
                     err |-> r.err]
  /\ UNCHANGED <<calls, net, codec>>

\* Check testing the length only after the client was invoked
CallCheckUnguarded(c, vat) ==
  /\ ~validator.nil
  /\ calls[c].pc = "idle"
  /\ IF CheckTooShort(vat)
     THEN calls' = [calls EXCEPT ![c] =
                 [IdleCall EXCEPT !.pc = "done", !.op = "Check", !.vat = vat,
                                  !.ret = CheckFormatError(vat)]]
     ELSE calls' = [calls EXCEPT ![c] =
                 [IdleCall EXCEPT !.pc = "waiting", !.op = "Check", !.vat = vat,
                    !.req = doJSONRequest(validator, "POST", ViesCheckVatPath,
                               MarshalCheckRequest(CheckRequestBody(vat)))]]
  /\ net' = [net EXCEPT ![c] = @ + 1]
  /\ UNCHANGED <<validator, ctor, codec>>

\* v.Check(ctx, vat), up to client.Do (or to its return, when vat is too short)
CallCheck(c, vat) ==
  /\ ~validator.nil
  /\ calls[c].pc = "idle"
  /\ IF CheckTooShort(vat)
     THEN /\ calls' = [calls EXCEPT ![c] =
                 [IdleCall EXCEPT !.pc = "done", !.op = "Check", !.vat = vat,
                                  !.ret = CheckFormatError(vat)]]
          /\ net' = net
     ELSE /\ calls' = [calls EXCEPT ![c] =
                 [IdleCall EXCEPT !.pc = "waiting", !.op = "Check", !.vat = vat,
                    !.req = doJSONRequest(validator, "POST", ViesCheckVatPath,
                               MarshalCheckRequest(CheckRequestBody(vat)))]]
          /\ net' = [net EXCEPT ![c] = @ + 1]
  /\ UNCHANGED <<validator, ctor, codec>>

\* v.Valid(ctx, vat), up to client.Do inside Check
CallValid(c, vat) ==
  /\ ~validator.nil
  /\ calls[c].pc = "idle"
  /\ IF CheckTooShort(vat)
     THEN /\ calls' = [calls EXCEPT ![c] =
                 [IdleCall EXCEPT !.pc = "done", !.op = "Valid", !.vat = vat,
                                  !.ret = ValidReturn(CheckFormatError(vat))]]
          /\ net' = net
     ELSE /\ calls' = [calls EXCEPT ![c] =
                 [IdleCall EXCEPT !.pc = "waiting", !.op = "Valid", !.vat = vat,
                    !.req = doJSONRequest(validator, "POST", ViesCheckVatPath,
                               MarshalCheckRequest(CheckRequestBody(vat)))]]
          /\ net' = [net EXCEPT ![c] = @ + 1]
  /\ UNCHANGED <<validator, ctor, codec>>

\* v.Status(ctx), up to client.Do
CallStatus(c) ==
  /\ ~validator.nil
  /\ calls[c].pc = "idle"
  /\ calls' = [calls EXCEPT ![c] =
        [IdleCall EXCEPT !.pc = "waiting", !.op = "Status",
           !.req = doJSONRequest(validator, "GET", ViesCheckStatusPath, JAbsent)]]
  /\ net' = [net EXCEPT ![c] = @ + 1]
  /\ UNCHANGED <<validator, ctor, codec>>

\* the client answers call c's request: client.Do and io.ReadAll come back
RoundTrip(c, o) ==
  /\ calls[c].pc = "waiting"
  /\ calls' = [calls EXCEPT ![c].pc = "responded", ![c].rsp = o]
  /\ UNCHANGED <<validator, ctor, net, codec>>

\* the return values computed from a response buffer all calls share
CallResultShared(c) ==
  LET other == (c % NCalls) + 1
      rsp   == IF calls[other].pc \in {"responded", "done"}
                  /\ calls[other].rsp.kind = "response"
               THEN calls[other].rsp ELSE calls[c].rsp
  IN  IF calls[c].op = "Check" THEN CheckReturn(rsp)
      ELSE IF calls[c].op = "Valid" THEN ValidReturn(CheckReturn(rsp))
      ELSE StatusReturn(rsp)

\* what call c returns, from its operation and the answer to its request
CallResult(c) ==
  IF calls[c].op = "Check" THEN CheckReturn(calls[c].rsp)
  ELSE IF calls[c].op = "Valid" THEN ValidReturn(CheckReturn(calls[c].rsp))
  ELSE StatusReturn(calls[c].rsp)

\* the rest of doJSON and of the operation that called it: call c returns
Return(c) ==
  /\ calls[c].pc = "responded"
  /\ calls' = [calls EXCEPT ![c].pc = "done", ![c].ret = CallResult(c)]
  /\ UNCHANGED <<validator, ctor, net, codec>>

\* the caller is done with what call c returned; it may call again
Forget(c) ==
  /\ calls[c].pc = "done"
  /\ calls' = [calls EXCEPT ![c] = IdleCall]
  /\ net' = [net EXCEPT ![c] = 0]
  /\ UNCHANGED <<validator, ctor, codec>>

\* one caller at a time, every input
Next ==
  \/ \E cl \in Clients, ep \in Endpoints : NewValidator(cl, ep)
  \/ \E vat \in Vats : CallCheck(1, vat)
  \/ \E vat \in Vats : CallValid(1, vat)
  \/ CallStatus(1)
  \/ \E o \in Outcomes : RoundTrip(1, o)
  \/ Return(1)
  \/ Forget(1)

Spec == Init /\ [][Next]_vars

\* simultaneous callers of one validator
NextConc ==
  \/ \E cl \in Clients : NewValidator(cl, "")
  \/ \E c \in CallIds, vat \in ConcVats : CallCheck(c, vat)
  \/ \E c \in CallIds, vat \in ConcVats : CallValid(c, vat)
  \/ \E c \in CallIds : CallStatus(c)
  \/ \E c \in CallIds, o \in ConcOutcomes : RoundTrip(c, o)
  \/ \E c \in CallIds : Return(c)
  \/ \E c \in CallIds : Forget(c)

SpecConc == Init /\ [][NextConc]_vars

(***************************************************************************)
(* The Availability codec on its own: a JSON value is decoded, or an       *)
(* in-memory value is encoded and what was emitted is decoded again.       *)
(***************************************************************************)
\* s with the letters at the positions in S upper-cased
UpperAt(s, S) ==
  [i \in 1..Len(s) |-> IF i \in S /\ s[i] >= 97 /\ s[i] <= 122 THEN s[i] - 32 ELSE s[i]]

\* the sets of at most k positions of 1..n, and all of 1..n
PositionSets(n, k) ==
  {1..n} \cup UNION {{{f[i] : i \in 1..j} : f \in [1..j -> 1..n]} : j \in 0..k}

\* "bogus", "available " (a trailing space), "availabl", ""
OtherTexts ==
  {<<98, 111, 103, 117, 115>>,
   <<97, 118, 97, 105, 108, 97, 98, 108, 101, 32>>,
   <<97, 118, 97, 105, 108, 97, 98, 108>>,
   <<>>}

\* the texts drawn: the canonical and the other texts, in mixed case
Texts ==
  {UpperAt(s, S) : s \in Canonical \cup OtherTexts, S \in PositionSets(19, MaxUpper)}

\* the JSON values handed to UnmarshalJSON
CodecData == {JStr(s) : s \in Texts} \cup {JNum, JNull, JBool(TRUE), JArr(<<>>)}

InitCodec ==
  /\ validator = NilValidator
  /\ ctor = NoCtor
  /\ calls = [c \in CallIds |-> IdleCall]
  /\ net = [c \in CallIds |-> 0]
  /\ \/ \E d \in CodecData : codec = [IdleCodec EXCEPT !.pc = "data", !.data = d]
     \/ \E s \in Texts : codec = [IdleCodec EXCEPT !.pc = "value", !.a = s, !.src = s]

\* json.Unmarshal(data, &a) for a zero Availability a
DecodeAvailability ==
  /\ codec.pc = "data"
  /\ codec' = With(AvailabilityUnmarshalJSON(codec.data, codec.a), LAMBDA r :
                 [codec EXCEPT !.pc = "decoded", !.a = r.a, !.err = r.err])
  /\ UNCHANGED <<validator, ctor, calls, net>>

\* json.Marshal(a)
EncodeAvailability ==
  /\ codec.pc = "value"
  /\ codec' = With(AvailabilityMarshalJSON(codec.a), LAMBDA r :
                 [codec EXCEPT !.pc = "encoded", !.data = r.data, !.err = r.err])
  /\ UNCHANGED <<validator, ctor, calls, net>>

\* json.Unmarshal of what json.Marshal emitted, into a zero Availability
DecodeEncoded ==
  /\ codec.pc = "encoded"
  /\ codec.err = NoError
  /\ codec' = With(AvailabilityUnmarshalJSON(codec.data, <<>>), LAMBDA r :
                 [codec EXCEPT !.pc = "roundtrip", !.a = r.a, !.err = r.err])
  /\ UNCHANGED <<validator, ctor, calls, net>>

NextCodec ==
  \/ DecodeAvailability
  \/ EncodeAvailability
  \/ DecodeEncoded

SpecCodec == InitCodec /\ [][NextCodec]_vars

(***************************************************************************)
(* Properties.                                                             *)
(***************************************************************************)
Started(c) == calls[c].pc # "idle"
Done(c) == calls[c].pc = "done"
Answered(c) == Done(c) /\ calls[c].rsp.kind = "response"
FailedNoResult(r) ==
  /\ r.err # NoError
  /\ r.resNil /\ ~r.ok /\ r.check = ZeroCheckResult /\ r.status = ZeroStatus

\* the entries of the envelope a body holds, read off the JSON document
Entries(body) ==
  IF body.t = "object" /\ Member(body, "errorWrappers").t = "array"
  THEN Member(body, "errorWrappers").a ELSE <<>>
\* the text of a string member of a JSON object, empty when it has none
Text(j, key) ==
  IF j.t = "object" /\ Member(j, key).t = "string" THEN Member(j, key).s ELSE <<>>
\* the body decodes as an error envelope
DecodesAsEnvelope(body) == UnmarshalErrorResponse(body).err = NoError

\* C1: a call answered with a status other than 200 and a body that decodes
\* as an error envelope with at least one entry fails with a ValidationError
\* carrying the first entry's error and message, which renders as
\* "<error>: <message>"; it returns no result.
FirstEntryOnly ==
  \A c \in CallIds :
    (/\ Answered(c)
     /\ calls[c].rsp.status # 200
     /\ DecodesAsEnvelope(calls[c].rsp.body)
     /\ Len(Entries(calls[c].rsp.body)) >= 1)
    => LET first == Entries(calls[c].rsp.body)[1]
           err   == calls[c].ret.err
       IN  /\ err.type = "*ValidationError"
           /\ err.Err = Text(first, "error")
           /\ err.Message = Text(first, "message")
           /\ ErrorText(err) = Text(first, "error") \o <<58, 32>> \o Text(first, "message")
           /\ FailedNoResult(calls[c].ret)

\* a call answered 400 with two entries (e1/m1, e2/m2) has failed with "e1: m1"
FirstEntryOnlyWitness ==
  \E c \in CallIds :
    /\ Answered(c)
    /\ calls[c].rsp = Response(400, Bodies[7])
    /\ ErrorText(calls[c].ret.err) = <<101, 49, 58, 32, 109, 49>>

\* C2: Check (also under Valid) of an input shorter than 2 bytes has returned
\* at once with the format error naming the input and no result, and the
\* client was not invoked for it.
ShortVatNoRequest ==
  \A c \in CallIds :
    (Started(c) /\ calls[c].op \in {"Check", "Valid"} /\ Len(calls[c].vat) < 2)
    => /\ Done(c)
       /\ calls[c].ret.err.type = "*errors.errorString"
       /\ calls[c].ret.err.msg = "invalid VAT provided %s"
       /\ calls[c].ret.err.Err = calls[c].vat
       /\ FailedNoResult(calls[c].ret)
       /\ net[c] = 0
       /\ calls[c].req = NoRequest
       /\ calls[c].rsp = NoOutcome

\* Check("E") has returned
ShortVatNoRequestWitness ==
  \E c \in CallIds : Done(c) /\ calls[c].op = "Check" /\ calls[c].vat = <<69>>

\* C3: a call answered with a body that is not JSON fails with
\* json.Unmarshal's syntax error, never a ValidationError, whether the status
\* is 200 or not, and returns no result.
InvalidBodyIsDecodeError ==
  \A c \in CallIds :
    (Answered(c) /\ calls[c].rsp.body.t = "invalid")
    => /\ calls[c].ret.err = SyntaxError
       /\ calls[c].ret.err.type # "*ValidationError"
       /\ FailedNoResult(calls[c].ret)

\* a call answered 400 with `!` has returned
InvalidBodyIsDecodeErrorWitness ==
  \E c \in CallIds : Answered(c) /\ calls[c].rsp = Response(400, Bodies[1])

\* C4: a call answered with a status other than 200 and a body that decodes
\* as an envelope without entries fails with "invalid response structure",
\* which is neither a ValidationError nor a decode error; and no call
\* answered with a status other than 200 succeeds.
EmptyEnvelopeIsShapeError ==
  \A c \in CallIds :
    (Answered(c) /\ calls[c].rsp.status # 200)
    => /\ FailedNoResult(calls[c].ret)
       /\ (DecodesAsEnvelope(calls[c].rsp.body) /\ Len(Entries(calls[c].rsp.body)) = 0)
          => /\ calls[c].ret.err.type = "*errors.errorString"
             /\ calls[c].ret.err.msg = "invalid response structure"
             /\ calls[c].ret.err.type
                  \notin {"*ValidationError", "*json.SyntaxError", "*json.UnmarshalTypeError"}

\* a call answered 400 with {} has returned
EmptyEnvelopeIsShapeErrorWitness ==
  \E c \in CallIds : Answered(c) /\ calls[c].rsp = Response(400, Bodies[2])

\* what Check(vat) returns when the answer to its request is o
CheckOutcome(vat, o) == IF CheckTooShort(vat) THEN CheckFormatError(vat) ELSE CheckReturn(o)

\* C5: a call that returns an error returns no result with it (a nil pointer
\* from Check and Status, false from Valid), and Valid's error is the error
\* of the underlying Check.
NoResultWithError ==
  \A c \in CallIds :
    Done(c)
    => /\ (calls[c].ret.err # NoError => FailedNoResult(calls[c].ret))
       /\ (calls[c].op \in {"Check", "Status"}
             => (calls[c].ret.resNil <=> calls[c].ret.err # NoError))
       /\ (calls[c].op = "Valid"
             => LET r == CheckOutcome(calls[c].vat, calls[c].rsp)
                IN  /\ calls[c].ret.err = r.err
                    /\ (r.err # NoError => ~calls[c].ret.ok)
                    /\ (r.err = NoError => calls[c].ret.ok = r.check.Valid))

\* Valid has returned false with the error of a failed round trip
NoResultWithErrorWitness ==
  \E c \in CallIds :
    /\ Done(c) /\ calls[c].op = "Valid"
    /\ calls[c].rsp.kind = "error"
    /\ calls[c].ret.err = TransportError /\ ~calls[c].ret.ok

\* s is well-formed UTF-8
ValidUTF8(s) == CoerceUTF8(s, 1) = s

\* C6: for every input of at least 2 bytes (a well-formed string) the request
\* body's countryCode is the upper-cased 2-byte prefix and its vatNumber the
\* remainder, unchanged; and on a 200 answer that decodes, the result's vat is
\* the answer's countryCode followed by the answer's vatNumber.
RequestSplitsInput ==
  \A c \in CallIds :
    (/\ Started(c) /\ calls[c].op \in {"Check", "Valid"}
     /\ Len(calls[c].vat) >= 2 /\ ValidUTF8(calls[c].vat))
    => /\ calls[c].req.body.t = "object"
       /\ Text(calls[c].req.body, "countryCode") = ToUpper(SubSeq(calls[c].vat, 1, 2))
       /\ Text(calls[c].req.body, "vatNumber") = SubSeq(calls[c].vat, 3, Len(calls[c].vat))
       /\ (Answered(c) /\ calls[c].op = "Check" /\ calls[c].ret.err = NoError)
          => calls[c].ret.check.Vat =
               Text(calls[c].rsp.body, "countryCode") \o Text(calls[c].rsp.body, "vatNumber")

\* the same for inputs made of ASCII bytes only, where it holds
RequestSplitsAsciiInput ==
  \A c \in CallIds :
    (/\ Started(c) /\ calls[c].op \in {"Check", "Valid"}
     /\ Len(calls[c].vat) >= 2 /\ IsASCII(calls[c].vat))
    => /\ calls[c].req.body.t = "object"
       /\ Text(calls[c].req.body, "countryCode") =
            UpperAt(SubSeq(calls[c].vat, 1, 2), {1, 2})
       /\ Text(calls[c].req.body, "vatNumber") = SubSeq(calls[c].vat, 3, Len(calls[c].vat))
       /\ (Answered(c) /\ calls[c].op = "Check" /\ calls[c].ret.err = NoError)
          => calls[c].ret.check.Vat =
               Text(calls[c].rsp.body, "countryCode") \o Text(calls[c].rsp.body, "vatNumber")

\* s and t are equal up to the case of their ASCII letters
EqualFold(s, t) ==
  /\ Len(s) = Len(t)
  /\ \A i \in 1..Len(s) :
       \/ s[i] = t[i]
       \/ s[i] >= 65 /\ s[i] <= 90 /\ t[i] = s[i] + 32
       \/ t[i] >= 65 /\ t[i] <= 90 /\ s[i] = t[i] + 32

\* C7: decoding a JSON string that equals one of the three canonical texts up
\* to case yields that canonical text; decoding any other string, or a JSON
\* value that is not a string, fails and leaves the value alone.
DecodeIsCaseInsensitive ==
  codec.pc = "decoded"
  => IF codec.data.t = "string" /\ \E k \in Canonical : EqualFold(codec.data.s, k)
     THEN /\ codec.err = NoError
          /\ codec.a \in Canonical
          /\ EqualFold(codec.data.s, codec.a)
     ELSE /\ codec.err # NoError
          /\ codec.a = <<>>

\* "AVAILABLE" has been decoded to "available"
DecodeIsCaseInsensitiveWitness ==
  /\ codec.pc = "decoded"
  /\ codec.data = JStr(<<65, 86, 65, 73, 76, 65, 66, 76, 69>>)
  /\ codec.a = AvailabilityAvailable
  /\ codec.err = NoError

\* C8: encoding a canonical value emits exactly its text, and decoding what
\* was emitted gives the value back; encoding any other value fails and emits
\* nothing.
EncodeRoundTrips ==
  /\ codec.pc = "encoded"
     => IF codec.src \in Canonical
        THEN codec.err = NoError /\ codec.data = JStr(codec.src)
        ELSE codec.err # NoError /\ codec.data = JInvalid
  /\ codec.pc = "roundtrip"
     => codec.src \in Canonical /\ codec.err = NoError /\ codec.a = codec.src

\* "monitoring disabled" has been encoded and decoded again
EncodeRoundTripsWitness ==
  /\ codec.pc = "roundtrip"
  /\ codec.src = AvailabilityMonitoringDisabled
  /\ codec.a = AvailabilityMonitoringDisabled

\* the endpoints that are absolute URLs
AbsoluteEndpoints == {ViesEndpointUrl, "https://example.com/api/"}
\* the endpoint NewValidator works with
EffectiveEndpoint == IF ctor.endpoint = "" THEN ViesEndpointUrl ELSE ctor.endpoint
\* the client and the endpoint are stored as given, or as defaulted
StoredAsGiven ==
  /\ ~validator.nil
  /\ ctor.err = NoError
  /\ validator.endpoint = urlParse(EffectiveEndpoint).u
  /\ validator.client = (IF ctor.client = "nil" THEN "http.DefaultClient" ELSE ctor.client)

\* C9 as stated: construction succeeds exactly for the endpoints that are
\* absolute URLs (the empty one standing for the default), storing the
\* endpoint and the client, and fails with no Validator for all others.
ConstructionNeedsAbsoluteURL ==
  ctor.done
  => IF EffectiveEndpoint \in AbsoluteEndpoints
     THEN StoredAsGiven
     ELSE validator.nil /\ ctor.err # NoError

\* C9, amended: construction succeeds exactly for the endpoints url.Parse
\* accepts, a relative reference among them, storing the parsed endpoint (the
\* default one for an empty string) and the client (the default one for nil);
\* it fails with url.Parse's error and no Validator for the others; and it
\* does not invoke the client.
ConstructionNeedsParsableURL ==
  /\ ctor.done
     => IF urlParse(EffectiveEndpoint).err = NoError
        THEN StoredAsGiven
        ELSE validator.nil /\ ctor.err = urlParse(EffectiveEndpoint).err
  /\ ~ctor.done => validator.nil
  /\ \A c \in CallIds : ~Started(c) => net[c] = 0

\* a validator was constructed from a relative endpoint and no client
ConstructionNeedsParsableURLWitness ==
  /\ ctor.done /\ ctor.endpoint = "example.com/api/" /\ ctor.client = "nil"
  /\ ~validator.nil
  /\ validator.client = "http.DefaultClient"
  /\ \A c \in CallIds : ~Started(c)

\* C10: with calls running simultaneously on one validator, the endpoint and
\* the client stay what construction made them, each call's request is made
\* from its own input, and what a call returns is determined by its own
\* operation, input and answer.
CallsAreIndependent ==
  /\ ctor.done => validator = NewValidatorResult(ctor.client, ctor.endpoint).v
  /\ \A c \in CallIds :
       /\ calls[c].pc \in {"waiting", "responded", "done"} /\ calls[c].req # NoRequest
          => /\ net[c] = 1
             /\ calls[c].req.url.host = validator.endpoint.host
             /\ (calls[c].op \in {"Check", "Valid"}
                  => calls[c].req.body = MarshalCheckRequest(CheckRequestBody(calls[c].vat)))
       /\ Done(c)
          => calls[c].ret =
               (IF calls[c].op = "Check" THEN CheckOutcome(calls[c].vat, calls[c].rsp)
                ELSE IF calls[c].op = "Valid"
                  THEN ValidReturn(CheckOutcome(calls[c].vat, calls[c].rsp))
                ELSE StatusReturn(calls[c].rsp))

\* two calls have returned, one failed and the other succeeded
CallsAreIndependentWitness ==
  \E c, d \in CallIds :
    /\ c # d
    /\ Done(c) /\ calls[c].op = "Check" /\ calls[c].ret.err = NoError
    /\ Done(d) /\ calls[d].op = "Valid" /\ calls[d].rsp = Response(400, Bodies[6])
    /\ calls[d].ret.err.type = "*ValidationError"

====
